---- MODULE Spec2Model ----
(***************************************************************************)
(* The two validators of the repository:                                   *)
(*   ExcelValidator      (excel_validator.py)     - rule engine            *)
(*   EcommerceValidator  (excel_validator_web.py) - pricing / tax checks   *)
(* Cell text is a sequence of one-character strings, so that str.replace,  *)
(* str.strip, str.isdigit, re.match and float() are modelled by what they  *)
(* do on the characters.  A float is a fixed-point number of hundredths    *)
(* (or NaN).                                                               *)
(***************************************************************************)
EXTENDS Integers, Sequences, FiniteSets, TLC

VARIABLES
    pc,                  \* ExcelValidator's caller: "load", "validate", "exit"
    df,                  \* ExcelValidator.df
    validation_results,  \* ExcelValidator.validation_results
    fault,               \* the last validate_data call raised
    visited,             \* the (row number, column) steps of the last call
    report,              \* what display_results printed since the last call
    rules,               \* the rules of the last validate_data call
    calls,               \* consecutive validate_data calls with these rules
    firstResults,        \* validation_results after the first of them
    epc,                 \* EcommerceValidator's caller
    edf,                 \* EcommerceValidator.df
    errors,              \* EcommerceValidator.errors
    summary,             \* EcommerceValidator.summary
    ecalls,              \* validate calls on this table
    firstErrors          \* errors after the first of them

xvars == <<pc, df, validation_results, fault, visited, report, rules, calls,
           firstResults>>

evars == <<epc, edf, errors, summary, ecalls, firstErrors>>

vars == <<pc, df, validation_results, fault, visited, report, rules, calls,
          firstResults, epc, edf, errors, summary, ecalls, firstErrors>>

----------------------------------------------------------------------------
(* Bounds of the model *)

MaxRows == 2
MaxCalls == 2

----------------------------------------------------------------------------
(* Characters and strings *)

Digits == <<"0", "1", "2", "3", "4", "5", "6", "7", "8", "9">>

IsDigit(c) == \E i \in 1..Len(Digits) : Digits[i] = c

DigitVal(c) == (CHOOSE i \in 1..Len(Digits) : Digits[i] = c) - 1

Letters ==
    {"a", "b", "c", "d", "e", "f", "g", "h", "i", "j", "k", "l", "m",
     "n", "o", "p", "q", "r", "s", "t", "u", "v", "w", "x", "y", "z",
     "A", "B", "C", "D", "E", "F", "G", "H", "I", "J", "K", "L", "M",
     "N", "O", "P", "Q", "R", "S", "T", "U", "V", "W", "X", "Y", "Z"}

\* \w of the regular expressions
IsWord(c) == IsDigit(c) \/ c \in Letters \/ c = "_"

\* [\w\.-] of the e-mail pattern
IsMailChar(c) == IsWord(c) \/ c = "." \/ c = "-"

AllOf(s, P(_)) == \A i \in 1..Len(s) : P(s[i])

\* str.replace(c, ''): every occurrence of c is removed
Remove(s, c) == SelectSeq(s, LAMBDA x : x # c)

\* str.isdigit(): non-empty and every character a digit
IsDigitStr(s) == Len(s) > 0 /\ AllOf(s, IsDigit)

RECURSIVE LStrip(_)
LStrip(s) == IF s # <<>> /\ Head(s) = " " THEN LStrip(Tail(s)) ELSE s

RECURSIVE RStrip(_)
RStrip(s) ==
    IF s # <<>> /\ s[Len(s)] = " " THEN RStrip(SubSeq(s, 1, Len(s) - 1)) ELSE s

\* str.strip()
Strip(s) == RStrip(LStrip(s))

RECURSIVE ToNat(_)
ToNat(s) ==
    IF s = <<>> THEN 0
    ELSE ToNat(SubSeq(s, 1, Len(s) - 1)) * 10 + DigitVal(s[Len(s)])

----------------------------------------------------------------------------
(* Cells.  An empty spreadsheet cell is loaded as NaN (na = TRUE); any    *)
(* other cell carries the text str(value).                                 *)

NaN == [na |-> TRUE, s |-> <<>>]

Txt(s) == [na |-> FALSE, s |-> s]

\* pd.isna(value)
IsNa(value) == value.na

\* str(value): str(float('nan')) is 'nan'
Str(value) == IF value.na THEN <<"n", "a", "n">> ELSE value.s

----------------------------------------------------------------------------
(* float().  Values are hundredths; the cells of the model carry at most   *)
(* two decimals.  The grammar covers surrounding blanks, a sign, digits    *)
(* with at most one point, and 'nan'.                                      *)

Scale == 100

NotFloat == [ok |-> FALSE, nan |-> FALSE, v |-> 0]

NanFloat == [ok |-> TRUE, nan |-> TRUE, v |-> 0]

Num(v) == [ok |-> TRUE, nan |-> FALSE, v |-> v]

PointAt(s) == IF \E i \in 1..Len(s) : s[i] = "."
              THEN CHOOSE i \in 1..Len(s) : s[i] = "."
              ELSE Len(s) + 1

\* the fraction digits as hundredths
FracVal(f) ==
    IF Len(f) = 0 THEN 0
    ELSE IF Len(f) = 1 THEN DigitVal(f[1]) * 10
    ELSE DigitVal(f[1]) * 10 + DigitVal(f[2])

ParseUnsigned(s) ==
    LET p == PointAt(s)
        ip == SubSeq(s, 1, p - 1)
        fp == SubSeq(s, p + 1, Len(s))
    IN  IF s = <<"n", "a", "n">> THEN NanFloat
        ELSE IF /\ AllOf(ip, IsDigit)
                /\ AllOf(fp, IsDigit)
                /\ Len(ip) + Len(fp) > 0
             THEN Num(ToNat(ip) * Scale + FracVal(fp))
             ELSE NotFloat

\* float(s) of a string
ParseFloat(s) ==
    LET t == Strip(s)
    IN  IF t = <<>> THEN NotFloat
        ELSE IF Head(t) = "-"
             THEN LET u == ParseUnsigned(Tail(t))
                  IN  IF u.ok /\ ~u.nan THEN Num(0 - u.v) ELSE u
        ELSE IF Head(t) = "+" THEN ParseUnsigned(Tail(t))
        ELSE ParseUnsigned(t)

\* float(value) of a cell; float(nan) is nan
ToFloat(value) == IF value.na THEN NanFloat ELSE ParseFloat(value.s)

\* FloatGe as a strict comparison
FloatGeStrict(x, y) == ~x.nan /\ ~y.nan /\ x.v > y.v

\* x < n, x > n, x >= y on floats: every comparison with NaN is false
FloatLt(x, n) == ~x.nan /\ x.v < n * Scale

FloatGt(x, n) == ~x.nan /\ x.v > n * Scale

FloatGe(x, y) == ~x.nan /\ ~y.nan /\ x.v >= y.v

----------------------------------------------------------------------------
(* ExcelValidator: field predicates *)

\* re.match(r'^[\w\.-]+@[\w\.-]+\.\w+$', str(email))
validate_email(email) ==
    LET s == Str(email)
    IN  \E i \in 1..Len(s) : \E j \in 1..Len(s) :
            /\ 1 < i /\ i + 1 < j /\ j < Len(s)
            /\ s[i] = "@"
            /\ s[j] = "."
            /\ AllOf(SubSeq(s, 1, i - 1), IsMailChar)
            /\ AllOf(SubSeq(s, i + 1, j - 1), IsMailChar)
            /\ AllOf(SubSeq(s, j + 1, Len(s)), IsWord)

\* re.match(r'^\+?1?\d{9,15}$', str(phone))
validate_phone(phone) ==
    LET s == Str(phone)
    IN  \E a \in 0..1 : \E b \in 0..1 :
            /\ a + b <= Len(s)
            /\ (a = 1 => s[1] = "+")
            /\ (b = 1 => s[a + 1] = "1")
            /\ Len(s) - a - b >= 9
            /\ Len(s) - a - b <= 15
            /\ AllOf(SubSeq(s, a + b + 1, Len(s)), IsDigit)

\* str(value).replace('.', '').isdigit()
IsNumericString(value) == IsDigitStr(Remove(Str(value), "."))

----------------------------------------------------------------------------
(* ExcelValidator: error records *)

NA == Txt(<<"N", "/", "A">>)

Err(msg) == [msg |-> msg, limit |-> 0, list |-> <<>>]

ErrLimit(msg, n) == [msg |-> msg, limit |-> n, list |-> <<>>]

ErrList(msg, l) == [msg |-> msg, limit |-> 0, list |-> l]

Result(row_number, column, value, error) ==
    [Row |-> row_number, Column |-> column, Value |-> value, Error |-> error]

\* a check's outcome: the records it appended, and whether it raised
Out(recs, raised) == [recs |-> recs, fault |-> raised]

\* lines 64-86: at most one record, by the rule's type
TypeValidation(row_number, column, value, rule) ==
    IF rule.type = "email" /\ ~validate_email(value)
    THEN <<Result(row_number, column, value, Err("Invalid email format"))>>
    ELSE IF rule.type = "phone" /\ ~validate_phone(value)
    THEN <<Result(row_number, column, value, Err("Invalid phone number format"))>>
    ELSE IF rule.type = "numeric" /\ ~IsNumericString(value)
    THEN <<Result(row_number, column, value, Err("Not a valid number"))>>
    ELSE <<>>

\* RangeValidation with the conversion guarded: no number, no range record
RangeValidationGuarded(row_number, column, value, rule) ==
    LET x == ToFloat(value)
    IN  Out((IF rule.hasMin /\ x.ok /\ FloatLt(x, rule.min)
             THEN <<Result(row_number, column, value,
                           ErrLimit("Value below minimum", rule.min))>>
             ELSE <<>>)
            \o (IF rule.hasMax /\ x.ok /\ FloatGt(x, rule.max)
                THEN <<Result(row_number, column, value,
                              ErrLimit("Value above maximum", rule.max))>>
                ELSE <<>>),
            FALSE)

\* lines 88-102: float(value) is evaluated only when the key is in the rule,
\* and raises ValueError when the text is no number
RangeValidation(row_number, column, value, rule) ==
    LET x == ToFloat(value)
        below == IF rule.hasMin /\ x.ok /\ FloatLt(x, rule.min)
                 THEN <<Result(row_number, column, value,
                               ErrLimit("Value below minimum", rule.min))>>
                 ELSE <<>>
        above == IF rule.hasMax /\ x.ok /\ FloatGt(x, rule.max)
                 THEN <<Result(row_number, column, value,
                               ErrLimit("Value above maximum", rule.max))>>
                 ELSE <<>>
    IN  IF (rule.hasMin \/ rule.hasMax) /\ ~x.ok
        THEN Out(<<>>, TRUE)
        ELSE Out(below \o above, FALSE)

\* lines 104-111: value not in rule['allowed_values']
ListValidation(row_number, column, value, rule) ==
    IF rule.hasAllowed
       /\ ~\E i \in 1..Len(rule.allowed) : rule.allowed[i] = Str(value)
    THEN <<Result(row_number, column, value,
                  ErrList("Value not in allowed list", rule.allowed))>>
    ELSE <<>>

\* ColumnNotFound without the membership test of line 39: row[column] raises
ColumnNotFoundRaises(row_number, column) == Out(<<>>, TRUE)

\* lines 39-46: the ruled column is not in the table
ColumnNotFound(row_number, column) ==
    Out(<<Result(row_number, column, NA, Err("Column not found in Excel file"))>>,
        FALSE)

\* EmptyCell without the test of the rule's required flag
EmptyCellIgnoresRequired(row_number, column, value, rule) ==
    Out(<<Result(row_number, column, value, Err("Required field is empty"))>>,
        FALSE)

\* lines 51-62: an empty cell gets the required record or nothing
EmptyCell(row_number, column, value, rule) ==
    IF rule.required
    THEN Out(<<Result(row_number, column, value, Err("Required field is empty"))>>,
             FALSE)
    ELSE Out(<<>>, FALSE)

\* CellChecks with the range checks skipped once the type check has failed
CellChecksTypeFirst(row_number, column, value, rule) ==
    LET t == TypeValidation(row_number, column, value, rule)
        r == RangeValidationGuarded(row_number, column, value, rule)
        x == ToFloat(value)
    IN  IF t # <<>>
        THEN Out(t \o ListValidation(row_number, column, value, rule), FALSE)
        ELSE IF (rule.hasMin \/ rule.hasMax) /\ ~x.ok
        THEN Out(t, TRUE)
        ELSE Out(t \o r.recs \o ListValidation(row_number, column, value, rule),
                 FALSE)

\* lines 64-111: the type, range and list checks of a cell that is not empty
CellChecks(row_number, column, value, rule) ==
    LET t == TypeValidation(row_number, column, value, rule)
        r == RangeValidation(row_number, column, value, rule)
    IN  IF r.fault
        THEN Out(t, TRUE)
        ELSE Out(t \o r.recs \o ListValidation(row_number, column, value, rule),
                 FALSE)

\* lines 38-111: the body of the inner loop for one row and one ruled column
CheckCell(table, i, column, rule) ==
    IF column \notin table.columns
    THEN ColumnNotFound(i + 1, column)
    ELSE IF IsNa(table.rows[i][column])
    THEN EmptyCell(i + 1, column, table.rows[i][column], rule)
    ELSE CellChecks(i + 1, column, table.rows[i][column], rule)

\* the k-th step of the nested loops (rows outside, rules inside)
RowOf(k, nrules) == ((k - 1) \div nrules) + 1

RuleOf(k, nrules) == ((k - 1) % nrules) + 1

\* lines 35-111: the scan from step k on; it stops at the step that raises
RECURSIVE Scan(_, _, _, _, _)
Scan(table, rs, k, acc, seen) ==
    IF Len(rs) = 0 \/ k > Len(table.rows) * Len(rs)
    THEN [results |-> acc, fault |-> FALSE, visited |-> seen]
    ELSE LET i == RowOf(k, Len(rs))
             column == rs[RuleOf(k, Len(rs))].column
             rule == rs[RuleOf(k, Len(rs))].rule
             o == CheckCell(table, i, column, rule)
             here == Append(seen, <<i + 1, column>>)
         IN  IF o.fault
             THEN [results |-> acc \o o.recs, fault |-> TRUE, visited |-> here]
             ELSE Scan(table, rs, k + 1, acc \o o.recs, here)

\* ResetResults without the assignment of line 33
KeepResults(old) == old

\* line 33: the list is replaced by a new empty list
ResetResults(old) == <<>>

\* validate_data(rules) as a whole
validate_data(table, rs, old) == Scan(table, rs, 1, ResetResults(old), <<>>)

----------------------------------------------------------------------------
(* ExcelValidator: the tables and rule sets of the model *)

Rule(required, type, hasMin, min, hasMax, max, hasAllowed, allowed) ==
    [required |-> required, type |-> type, hasMin |-> hasMin, min |-> min,
     hasMax |-> hasMax, max |-> max, hasAllowed |-> hasAllowed,
     allowed |-> allowed]

For(column, rule) == [column |-> column, rule |-> rule]

MinAge == 0

MaxAge == 120

Active == <<"A", "c", "t", "i", "v", "e">>

Inactive == <<"I", "n", "a", "c", "t", "i", "v", "e">>

Pending == <<"P", "e", "n", "d", "i", "n", "g">>

StatusValues == <<Active, Inactive, Pending>>

\* main, lines 125-144
validation_rules ==
    << For("Email", Rule(TRUE, "email", FALSE, 0, FALSE, 0, FALSE, <<>>)),
       For("Phone", Rule(TRUE, "phone", FALSE, 0, FALSE, 0, FALSE, <<>>)),
       For("Age", Rule(TRUE, "numeric", TRUE, MinAge, TRUE, MaxAge, FALSE, <<>>)),
       For("Status", Rule(TRUE, "none", FALSE, 0, FALSE, 0, TRUE, StatusValues)) >>

\* other rule dictionaries a caller can pass to validate_data
RuleSets ==
    { validation_rules,
      << For("Age", Rule(FALSE, "numeric", FALSE, 0, FALSE, 0, FALSE, <<>>)),
         For("Status", Rule(FALSE, "none", FALSE, 0, FALSE, 0, TRUE, StatusValues)),
         For("Email", Rule(FALSE, "email", FALSE, 0, FALSE, 0, FALSE, <<>>)) >>,
      << For("Phone", Rule(TRUE, "phone", FALSE, 0, FALSE, 0, FALSE, <<>>)),
         For("Age", Rule(FALSE, "none", TRUE, MinAge, FALSE, 0, FALSE, <<>>)),
         For("Email", Rule(FALSE, "email", FALSE, 0, FALSE, 0, FALSE, <<>>)) >>,
      << For("Age", Rule(TRUE, "numeric", FALSE, 0, TRUE, MaxAge, FALSE, <<>>)),
         For("Status", Rule(TRUE, "none", FALSE, 0, FALSE, 0, FALSE, <<>>)) >> }

AgeCells ==
    { NaN,
      Txt(<<"4", "2">>),
      Txt(<<"1", "5", "0">>),
      Txt(<<"-", "5">>),
      Txt(<<"1", ".", "2", ".", "3">>),
      Txt(<<"a", "b", "c">>) }

StatusCells == { Txt(Active), Txt(<<"A", "r", "c", "h", "i", "v", "e", "d">>) }

EmailCells == { NaN, Txt(<<"a", "@", "b", ".", "c", "o", "m">>), Txt(<<"a", "@", "b">>) }

PhoneCells ==
    { NaN,
      Txt(<<"+", "1", "1", "2", "3", "4", "5", "6", "7", "8", "9", "0">>),
      Txt(<<"1", "2", "3">>) }

\* the rows of a sheet with the columns Age and Status, and of one with the
\* columns Email and Phone
PersonRows == { ("Age" :> a) @@ ("Status" :> s) : a \in AgeCells, s \in StatusCells }

ContactRows == { ("Email" :> e) @@ ("Phone" :> p) : e \in EmailCells, p \in PhoneCells }

TablesOf(rowset, columns) ==
    { [loaded |-> TRUE, columns |-> columns, rows |-> rows] :
        rows \in UNION { [1..n -> rowset] : n \in 0..MaxRows } }

\* what pd.read_excel can return
Tables == TablesOf(PersonRows, {"Age", "Status"})
            \cup TablesOf(ContactRows, {"Email", "Phone"})

\* self.df = None
None == [loaded |-> FALSE, columns |-> {}, rows |-> <<>>]

NoReport == [shown |-> FALSE, rows |-> <<>>]

----------------------------------------------------------------------------
(* ExcelValidator: operations *)

XInit ==
    /\ pc = "load"
    /\ df = None
    /\ validation_results = <<>>
    /\ fault = FALSE
    /\ visited = <<>>
    /\ report = NoReport
    /\ rules = <<>>
    /\ calls = 0
    /\ firstResults = <<>>

\* load_excel, lines 13-16: the file is read
LoadExcel ==
    /\ pc = "load"
    /\ epc = "load"
    /\ \E table \in Tables : df' = table
    /\ pc' = "validate"
    /\ UNCHANGED <<validation_results, fault, visited, report, rules, calls,
                   firstResults>>
    /\ UNCHANGED evars

\* load_excel, lines 17-19: reading raised; main (line 151) then ends
LoadExcelFails ==
    /\ pc = "load"
    /\ epc = "load"
    /\ pc' = "exit"
    /\ UNCHANGED <<df, validation_results, fault, visited, report, rules,
                   calls, firstResults>>
    /\ UNCHANGED evars

\* validate_data(rs), lines 31-111
ValidateData ==
    /\ pc = "validate"
    /\ \E rs \in RuleSets :
         LET out == validate_data(df, rs, validation_results)
             again == calls > 0 /\ rs = rules
         IN  /\ again => calls < MaxCalls
             /\ validation_results' = out.results
             /\ fault' = out.fault
             /\ visited' = out.visited
             /\ rules' = rs
             /\ calls' = IF again THEN calls + 1 ELSE 1
             /\ firstResults' = IF again THEN firstResults ELSE out.results
    /\ report' = NoReport
    /\ UNCHANGED <<pc, df>>
    /\ UNCHANGED evars

\* display_results, lines 113-121; main (lines 152-153) reaches it only when
\* validate_data returned
DisplayResults ==
    /\ pc = "validate"
    /\ calls > 0
    /\ ~fault
    /\ report' = [shown |-> TRUE, rows |-> validation_results]
    /\ UNCHANGED <<pc, df, validation_results, fault, visited, rules, calls,
                   firstResults>>
    /\ UNCHANGED evars

----------------------------------------------------------------------------
(* EcommerceValidator: validate_prices_and_tax *)

PriceTier == 999

HighTax == 18

LowTax == 12

Msg(text, nums, str) == [text |-> text, nums |-> nums, str |-> str]

Error(row_num, type, error) == [Row |-> row_num, Type |-> type, Error |-> error]

\* str(row[c]).replace(',', '').replace('₹', '').strip()
CleanPrice(value) == Strip(Remove(Remove(Str(value), ","), "₹"))

\* str(row['Tax Rate']).replace('%', '').strip()
CleanTax(value) == Strip(Remove(Str(value), "%"))

\* lines 33-34: a rate below 1 is a fraction; the value is in hundredths
TaxRate(x) == IF ~x.nan /\ x.v < Scale THEN Num(x.v * 100) ELSE x

\* the two-decimal fractions whose binary product with 100 falls just below
\* the integer: 0.29, 0.57 and 0.58 (and their negatives)
RoundsDown(h) == h \in {29, 57, 58, 0 - 29, 0 - 57, 0 - 58}

\* int(tax_rate) of line 46, from the parsed cell: truncation towards zero
IntTaxRate(x) ==
    LET r == TaxRate(x).v
        q == IF r >= 0 THEN r \div Scale ELSE 0 - ((0 - r) \div Scale)
    IN  IF x.v < Scale /\ RoundsDown(x.v)
        THEN (IF q > 0 THEN q - 1 ELSE q + 1)
        ELSE q

\* ExpectedTax with the tier starting at the boundary price
ExpectedTaxInclusive(sale_price) ==
    IF ~sale_price.nan /\ sale_price.v >= PriceTier * Scale THEN HighTax ELSE LowTax

\* line 45
ExpectedTax(sale_price) == IF FloatGt(sale_price, PriceTier) THEN HighTax ELSE LowTax

PriceColumns == <<"MAP", "MRP (O)", "Sale Price (inc tax)">>

\* lines 26-32: the first lookup or conversion that raises, as the message of
\* the exception; ok when none does
ParseRow(table, row) ==
    LET missing(c) == c \notin table.columns
        bad(c) == ~ParseFloat(CleanPrice(row[c])).ok
        firstBad ==
            IF \E k \in 1..Len(PriceColumns) :
                   missing(PriceColumns[k]) \/ bad(PriceColumns[k])
            THEN CHOOSE k \in 1..Len(PriceColumns) :
                   /\ missing(PriceColumns[k]) \/ bad(PriceColumns[k])
                   /\ \A j \in 1..(k - 1) :
                        ~missing(PriceColumns[j]) /\ ~bad(PriceColumns[j])
            ELSE 0
    IN  IF firstBad # 0
        THEN IF missing(PriceColumns[firstBad])
             THEN [ok |-> FALSE, msg |-> Msg("KeyError", <<firstBad>>, <<>>)]
             ELSE [ok |-> FALSE,
                   msg |-> Msg("could not convert string to float", <<>>,
                               CleanPrice(row[PriceColumns[firstBad]]))]
        ELSE IF "Tax Rate" \notin table.columns
        THEN [ok |-> FALSE, msg |-> Msg("KeyError", <<Len(PriceColumns) + 1>>, <<>>)]
        ELSE IF ~ParseFloat(CleanTax(row["Tax Rate"])).ok
        THEN [ok |-> FALSE,
              msg |-> Msg("could not convert string to float", <<>>,
                          CleanTax(row["Tax Rate"]))]
        ELSE [ok |-> TRUE, msg |-> Msg("", <<>>, <<>>)]

DataError(row_num, msg) ==
    Error(row_num, "Data Error", Msg("Invalid data in row", msg.nums, msg.str))

\* lines 36-42
PriceCheck(row_num, map_price, mrp) ==
    IF FloatGe(map_price, mrp)
    THEN <<Error(row_num, "Price Error",
                 Msg("MAP is greater than or equal to MRP",
                     <<map_price.v, mrp.v>>, <<>>))>>
    ELSE <<>>

\* lines 44-51, for a tax rate that int() converts
TaxCheck(row_num, tax, sale_price) ==
    IF IntTaxRate(tax) # ExpectedTax(sale_price)
    THEN <<Error(row_num, "Tax Error",
                 Msg("Incorrect tax rate",
                     <<IntTaxRate(tax), sale_price.v, ExpectedTax(sale_price)>>,
                     <<>>))>>
    ELSE <<>>

\* lines 22-58: the records one row appends.  int(nan) on line 46 raises
\* after the price check has appended its record.
RowErrors(table, i) ==
    LET row == table.rows[i]
        row_num == i + 1
        p == ParseRow(table, row)
        map_price == ParseFloat(CleanPrice(row["MAP"]))
        mrp == ParseFloat(CleanPrice(row["MRP (O)"]))
        sale_price == ParseFloat(CleanPrice(row["Sale Price (inc tax)"]))
        tax == ParseFloat(CleanTax(row["Tax Rate"]))
    IN  IF ~p.ok
        THEN <<DataError(row_num, p.msg)>>
        ELSE IF tax.nan
        THEN PriceCheck(row_num, map_price, mrp)
               \o <<DataError(row_num,
                              Msg("cannot convert float NaN to integer",
                                  <<>>, <<>>))>>
        ELSE PriceCheck(row_num, map_price, mrp)
               \o TaxCheck(row_num, tax, sale_price)

\* lines 21-58: the loop over the rows appends to self.errors
RECURSIVE validate_prices_and_tax(_, _, _)
validate_prices_and_tax(table, i, acc) ==
    IF i > Len(table.rows) THEN acc
    ELSE validate_prices_and_tax(table, i + 1, acc \o RowErrors(table, i))

\* line 62: self.errors = []
ResetErrors(old) == <<>>

\* InvalidRows counting the records instead of the distinct rows
InvalidRowsPerRecord(errs) == Len(errs)

\* line 69: len(set(error['Row'] for error in self.errors))
InvalidRows(errs) == Cardinality({ errs[k].Row : k \in 1..Len(errs) })

\* lines 68-75
Summary(total_rows, invalid_rows) ==
    [ k \in {"Total Rows", "Valid Rows", "Invalid Rows"} |->
        IF k = "Total Rows" THEN total_rows
        ELSE IF k = "Valid Rows" THEN total_rows - invalid_rows
        ELSE invalid_rows ]

----------------------------------------------------------------------------
(* EcommerceValidator: the tables of the model *)

Hundred == Txt(<<"1", "0", "0">>)

Abc == Txt(<<"a", "b", "c">>)

MrpCells == { Txt(<<"9", "0">>), Hundred, Txt(<<"₹", "1", ",", "2", "0", "0">>) }

SaleCells == { Txt(<<"9", "9", "9">>), Txt(<<"1", "2", "0", "0">>) }

TaxCells == { Txt(<<"1", "8", "%">>), Txt(<<"0", ".", "1", "8">>),
              Txt(<<"1", "2", "%">>), NaN }

Row(map, mrp, sale, tax) ==
    ("MAP" :> map) @@ ("MRP (O)" :> mrp) @@ ("Sale Price (inc tax)" :> sale)
      @@ ("Tax Rate" :> tax)

\* rows whose price cells hold numbers, and rows with a cell that holds none
ProductRows ==
    { Row(Hundred, mrp, sale, tax) :
        mrp \in MrpCells, sale \in SaleCells, tax \in TaxCells }

OddRows ==
    { Row(Abc, Hundred, Txt(<<"9", "9", "9">>), Txt(<<"1", "2", "%">>)),
      Row(Hundred, Txt(<<"9", "0">>), Txt(<<"9", "9", "9">>), Abc),
      Row(NaN, Hundred, Txt(<<"1", "2", "0", "0">>), Txt(<<"1", "8", "%">>)) }

AllColumns == {"MAP", "MRP (O)", "Sale Price (inc tax)", "Tax Rate"}

Restrict(row, columns) == [ c \in columns |-> row[c] ]

ETables ==
    TablesOf(ProductRows \cup OddRows, AllColumns)
      \cup TablesOf({ Restrict(r, AllColumns \ {"Tax Rate"}) : r \in ProductRows },
                    AllColumns \ {"Tax Rate"})

\* self.summary = {}
NoSummary == [ k \in {} |-> 0 ]

----------------------------------------------------------------------------
(* EcommerceValidator: operations *)

EInit ==
    /\ epc = "load"
    /\ edf = None
    /\ errors = <<>>
    /\ summary = NoSummary
    /\ ecalls = 0
    /\ firstErrors = <<>>

\* load_excel, lines 12-14
ELoadExcel ==
    /\ epc = "load"
    /\ pc = "load"
    /\ \E table \in ETables : edf' = table
    /\ epc' = "validate"
    /\ UNCHANGED <<errors, summary, ecalls, firstErrors>>
    /\ UNCHANGED xvars

\* load_excel, lines 15-17; main (line 146) then skips the validation
ELoadExcelFails ==
    /\ epc = "load"
    /\ pc = "load"
    /\ epc' = "exit"
    /\ UNCHANGED <<edf, errors, summary, ecalls, firstErrors>>
    /\ UNCHANGED xvars

\* validate, lines 60-75
Validate ==
    /\ epc = "validate"
    /\ ecalls < MaxCalls
    /\ LET errs == validate_prices_and_tax(edf, 1, ResetErrors(errors))
       IN  /\ errors' = errs
           /\ summary' = Summary(Len(edf.rows), InvalidRows(errs))
           /\ firstErrors' = IF ecalls = 0 THEN errs ELSE firstErrors
    /\ ecalls' = ecalls + 1
    /\ UNCHANGED <<epc, edf>>
    /\ UNCHANGED xvars

----------------------------------------------------------------------------
(* Specifications *)

Init == XInit /\ EInit

\* The two validators are two programs, and a run is a run of one of them:
\* a load starts a program only while the other has not started.
Next ==
    \/ LoadExcel
    \/ LoadExcelFails
    \/ ValidateData
    \/ DisplayResults
    \/ ELoadExcel
    \/ ELoadExcelFails
    \/ Validate

Spec == Init /\ [][Next]_vars

----------------------------------------------------------------------------
(* Properties of ExcelValidator.validate_data *)

\* the steps of a complete scan, in order: rows outside, rules inside
AllSteps ==
    [ k \in 1..(Len(df.rows) * Len(rules)) |->
        <<RowOf(k, Len(rules)) + 1, rules[RuleOf(k, Len(rules))].column>> ]

RuleAt(k) == rules[RuleOf(k, Len(rules))].rule

ColumnAt(k) == rules[RuleOf(k, Len(rules))].column

HasCell(k) == ColumnAt(k) \in df.columns

CellAt(k) == df.rows[RowOf(k, Len(rules))][ColumnAt(k)]

\* the records of validation_results about the cell of step k
RecsAt(k) ==
    SelectSeq(validation_results,
              LAMBDA e : e.Row = AllSteps[k][1] /\ e.Column = AllSteps[k][2])

Count(recs, msg) == Len(SelectSeq(recs, LAMBDA e : e.Error.msg = msg))

\* the scan of the last call reached step k
Reached(k) == k <= Len(visited) /\ visited[k] = AllSteps[k]

Validated == calls > 0

\* C1: an empty cell of a ruled column that is in the table is settled before
\* any other check: the records about it are exactly one 'Required field is
\* empty' record when the rule is required and none otherwise, and the scan
\* does not raise on it.
C1_EmptyCellFirst ==
    Validated =>
        \A k \in 1..Len(visited) :
            (HasCell(k) /\ CellAt(k).na) =>
                /\ Reached(k)
                /\ RecsAt(k) =
                     IF RuleAt(k).required
                     THEN <<Result(AllSteps[k][1], ColumnAt(k), CellAt(k),
                                   Err("Required field is empty"))>>
                     ELSE <<>>
                /\ ~(fault /\ k = Len(visited))

\* a call that met an empty required cell and an empty cell that is not
\* required, under a rule with a type
C1_Witness ==
    /\ Validated
    /\ \E k \in 1..Len(visited) :
         HasCell(k) /\ CellAt(k).na /\ RuleAt(k).required /\ Len(RecsAt(k)) = 1
    /\ \E k \in 1..Len(visited) :
         /\ HasCell(k) /\ CellAt(k).na /\ ~RuleAt(k).required
         /\ RuleAt(k).type # "none"
         /\ Len(RecsAt(k)) = 0

\* C10: a ruled column that is not in the table gives, for the row, exactly
\* one record with Value 'N/A' and the column-not-found message, nothing
\* else about that column, and the scan goes on to the next step.
C10_MissingColumnRecorded ==
    Validated =>
        \A k \in 1..Len(visited) :
            ~HasCell(k) =>
                /\ Reached(k)
                /\ RecsAt(k) =
                     <<Result(AllSteps[k][1], ColumnAt(k), NA,
                              Err("Column not found in Excel file"))>>
                /\ k < Len(AllSteps) => Reached(k + 1)

\* a call on a table of two rows with a ruled column missing, which went on
\* past the missing column of the first row to the second row
C10_Witness ==
    /\ Validated
    /\ Len(df.rows) = 2
    /\ \E k \in 1..Len(visited) :
         /\ ~HasCell(k)
         /\ AllSteps[k][1] = 2
         /\ k < Len(visited)
         /\ HasCell(k + 1)
         /\ Len(RecsAt(k + 1)) > 0
    /\ \E k \in 1..Len(visited) : ~HasCell(k) /\ AllSteps[k][1] = 3

\* the steps at which float(value) raises: a cell that is there and not
\* empty, a rule with min or max, and a text that is no number
Unparseable(k) ==
    /\ HasCell(k)
    /\ ~CellAt(k).na
    /\ RuleAt(k).hasMin \/ RuleAt(k).hasMax
    /\ ~ToFloat(CellAt(k)).ok

FaultSteps == { k \in 1..Len(AllSteps) : Unparseable(k) }

FirstFault == CHOOSE k \in FaultSteps : \A j \in FaultSteps : k <= j

\* C5: the call raises exactly when some step is unparseable under a rule
\* with min or max; it then stops at the first such step, nothing after it is
\* scanned or recorded and no report is printed; without such a step every
\* step is scanned, whatever else is wrong with the cells.
C5_OnlyRangeParseAborts ==
    Validated =>
        /\ fault <=> FaultSteps # {}
        /\ fault =>
             /\ visited = SubSeq(AllSteps, 1, FirstFault)
             /\ \A i \in 1..Len(validation_results) :
                  \E k \in 1..FirstFault :
                      /\ validation_results[i].Row = AllSteps[k][1]
                      /\ validation_results[i].Column = AllSteps[k][2]
             /\ ~report.shown
        /\ ~fault => visited = AllSteps

\* a call that raised on the first row of two, after recording a type error
\* on the cell that raised
C5_Witness ==
    /\ Validated
    /\ fault
    /\ Len(df.rows) = 2
    /\ visited[Len(visited)][1] = 2
    /\ Len(visited) < Len(AllSteps)
    /\ Count(RecsAt(Len(visited)), "Not a valid number") = 1

\* C6: a cell that is a number v under a rule with min or max gets exactly
\* one 'Value below minimum (min)' record iff min is set and v < min, and
\* exactly one 'Value above maximum (max)' record iff max is set and
\* v > max, whether or not the type check recorded the cell.
C6_RangeRecords ==
    Validated =>
        \A k \in 1..Len(visited) :
            ( /\ HasCell(k)
              /\ ~CellAt(k).na
              /\ RuleAt(k).hasMin \/ RuleAt(k).hasMax
              /\ ToFloat(CellAt(k)).ok ) =>
                LET v == ToFloat(CellAt(k))
                    low == RuleAt(k).hasMin /\ ~v.nan
                             /\ v.v < RuleAt(k).min * Scale
                    high == RuleAt(k).hasMax /\ ~v.nan
                              /\ v.v > RuleAt(k).max * Scale
                    below == Result(AllSteps[k][1], ColumnAt(k), CellAt(k),
                                    ErrLimit("Value below minimum", RuleAt(k).min))
                    above == Result(AllSteps[k][1], ColumnAt(k), CellAt(k),
                                    ErrLimit("Value above maximum", RuleAt(k).max))
                IN  /\ Count(RecsAt(k), "Value below minimum") = IF low THEN 1 ELSE 0
                    /\ Count(RecsAt(k), "Value above maximum") = IF high THEN 1 ELSE 0
                    /\ low => \E i \in 1..Len(RecsAt(k)) : RecsAt(k)[i] = below
                    /\ high => \E i \in 1..Len(RecsAt(k)) : RecsAt(k)[i] = above

\* a call under {min 0, max 120} that recorded 150 as above the maximum
\* once, and -5 with both a type record and a below-minimum record
C6_Witness ==
    /\ Validated
    /\ \E k \in 1..Len(visited) :
         /\ HasCell(k)
         /\ CellAt(k) = Txt(<<"1", "5", "0">>)
         /\ RuleAt(k).hasMin /\ RuleAt(k).min = MinAge
         /\ RuleAt(k).hasMax /\ RuleAt(k).max = MaxAge
         /\ RecsAt(k) = <<Result(AllSteps[k][1], ColumnAt(k), CellAt(k),
                                 ErrLimit("Value above maximum", MaxAge))>>
    /\ \E k \in 1..Len(visited) :
         /\ HasCell(k)
         /\ CellAt(k) = Txt(<<"-", "5">>)
         /\ Count(RecsAt(k), "Not a valid number") = 1
         /\ Count(RecsAt(k), "Value below minimum") = 1

\* the numeric strings of the specification: at most one '.', and digits
\* only once it is removed
OneDotDigits(s) ==
    /\ Len(SelectSeq(s, LAMBDA c : c = ".")) <= 1
    /\ IsDigitStr(Remove(s, "."))

\* C3: under a rule of type numeric a cell that is not empty gets a 'Not a
\* valid number' record exactly when its text, with at most one '.' removed,
\* is not all digits; so '1.2.3' gets one.
C3_NumericRejectsMultiDot ==
    Validated =>
        \A k \in 1..Len(visited) :
            (HasCell(k) /\ ~CellAt(k).na /\ RuleAt(k).type = "numeric") =>
                (Count(RecsAt(k), "Not a valid number") = 1
                    <=> ~OneDotDigits(Str(CellAt(k))))

\* C2: after any number of validate_data calls with the same rules on the
\* table, and of validate calls on the table, the error list is the list the
\* first call left.
C2_Idempotent ==
    /\ Validated => validation_results = firstResults
    /\ ecalls > 0 => errors = firstErrors

\* a second validate_data call with the rules of the first, on a table that
\* has errors
C2_Witness ==
    /\ calls = 2
    /\ Len(validation_results) > 1
    /\ validation_results = firstResults

----------------------------------------------------------------------------
(* Properties of EcommerceValidator.validate *)

ERecs(i) == SelectSeq(errors, LAMBDA e : e.Row = i + 1)

ECount(i, type) == Len(SelectSeq(ERecs(i), LAMBDA e : e.Type = type))

\* the four numbers of row i, as float() gives them
MapOf(i) == ParseFloat(CleanPrice(edf.rows[i]["MAP"]))

MrpOf(i) == ParseFloat(CleanPrice(edf.rows[i]["MRP (O)"]))

SaleOf(i) == ParseFloat(CleanPrice(edf.rows[i]["Sale Price (inc tax)"]))

TaxOf(i) == ParseFloat(CleanTax(edf.rows[i]["Tax Rate"]))

\* every conversion of lines 26-32 succeeds on row i
RowParses(i) ==
    /\ edf.columns = AllColumns
    /\ MapOf(i).ok /\ MrpOf(i).ok /\ SaleOf(i).ok /\ TaxOf(i).ok

\* C8: a row whose cells parse gets exactly one 'Price Error' record iff
\* MAP >= MRP, equality included, and none otherwise; two rows with the same
\* MAP and MRP cells get the same, whatever their Sale Price and Tax Rate.
C8_PriceErrorIffMapGeMrp ==
    ecalls > 0 =>
        /\ \A i \in 1..Len(edf.rows) :
             RowParses(i) =>
                 ECount(i, "Price Error") =
                     IF ~MapOf(i).nan /\ ~MrpOf(i).nan /\ MapOf(i).v >= MrpOf(i).v
                     THEN 1 ELSE 0
        /\ \A i, j \in 1..Len(edf.rows) :
             ( /\ RowParses(i) /\ RowParses(j)
               /\ edf.rows[i]["MAP"] = edf.rows[j]["MAP"]
               /\ edf.rows[i]["MRP (O)"] = edf.rows[j]["MRP (O)"] ) =>
                 ECount(i, "Price Error") = ECount(j, "Price Error")

\* a validated table with a row MAP = MRP that has its Price Error and a row
\* MAP < MRP that has none
C8_Witness ==
    /\ ecalls > 0
    /\ \E i \in 1..Len(edf.rows) :
         RowParses(i) /\ MapOf(i) = MrpOf(i) /\ ECount(i, "Price Error") = 1
    /\ \E i \in 1..Len(edf.rows) :
         RowParses(i) /\ ~MapOf(i).nan /\ ~MrpOf(i).nan
           /\ MapOf(i).v < MrpOf(i).v /\ ECount(i, "Price Error") = 0

\* the truncated tax rate of the specification, from the hundredths h of the
\* cell with '%' stripped: times 100 when below 1
Truncated(h) ==
    LET rate == IF h < 100 THEN h * 100 ELSE h
    IN  IF rate >= 0 THEN rate \div 100 ELSE 0 - ((0 - rate) \div 100)

\* C7: a row whose cells parse, with a tax rate that is a number, gets
\* exactly one 'Tax Error' record iff the truncated rate differs from the
\* expected tier, 18 when Sale Price > 999 and 12 otherwise.
C7_TaxErrorIffWrongTier ==
    ecalls > 0 =>
        \A i \in 1..Len(edf.rows) :
            (RowParses(i) /\ ~TaxOf(i).nan) =>
                LET expected == IF ~SaleOf(i).nan /\ SaleOf(i).v > 999 * 100
                                THEN 18 ELSE 12
                IN  ECount(i, "Tax Error") =
                        IF Truncated(TaxOf(i).v) # expected THEN 1 ELSE 0

\* a validated table with Sale Price 1200 in both rows, '12%' in one, which
\* has its Tax Error, and '0.18' in the other, which has none
C7_Witness ==
    /\ ecalls > 0
    /\ \E i, j \in 1..Len(edf.rows) :
         /\ RowParses(i) /\ RowParses(j)
         /\ SaleOf(i).v = 1200 * 100 /\ SaleOf(j).v = 1200 * 100
         /\ edf.rows[i]["Tax Rate"] = Txt(<<"1", "2", "%">>)
         /\ edf.rows[j]["Tax Rate"] = Txt(<<"0", ".", "1", "8">>)
         /\ ECount(i, "Tax Error") = 1
         /\ ECount(j, "Tax Error") = 0

\* C9: after validate, Invalid Rows is the number of distinct row numbers in
\* the error list, Valid Rows is Total Rows - Invalid Rows, Total Rows is
\* the number of rows, 0 <= Invalid Rows <= Total Rows, and a table without
\* rows has no errors and the summary {0, 0, 0}.
C9_SummaryCounts ==
    ecalls > 0 =>
        /\ summary["Total Rows"] = Len(edf.rows)
        /\ summary["Invalid Rows"] =
             Cardinality({ i \in 1..Len(edf.rows) : Len(ERecs(i)) > 0 })
        /\ \A k \in 1..Len(errors) : errors[k].Row - 1 \in 1..Len(edf.rows)
        /\ summary["Valid Rows"] = summary["Total Rows"] - summary["Invalid Rows"]
        /\ 0 <= summary["Invalid Rows"]
        /\ summary["Invalid Rows"] <= summary["Total Rows"]
        /\ Len(edf.rows) = 0 =>
             /\ errors = <<>>
             /\ \A key \in DOMAIN summary : summary[key] = 0

\* a validated table of two rows, one of them with two records and the
\* other with none
C9_Witness ==
    /\ ecalls > 0
    /\ Len(edf.rows) = 2
    /\ Len(errors) = 2
    /\ summary["Invalid Rows"] = 1
    /\ summary["Valid Rows"] = 1

\* a parse failure as the specification counts it: a column is missing, or
\* one of the four cells is empty or holds no number
ParseFails(i) ==
    \/ edf.columns # AllColumns
    \/ \E c \in AllColumns : edf.rows[i][c].na
    \/ ~MapOf(i).ok \/ ~MrpOf(i).ok \/ ~SaleOf(i).ok \/ ~TaxOf(i).ok

\* C4: a row on which a parse fails has exactly one record, a 'Data Error',
\* and the rows after it are validated as well.
C4_ParseFailureOneDataError ==
    ecalls > 0 =>
        \A i \in 1..Len(edf.rows) :
            ParseFails(i) =>
                /\ Len(ERecs(i)) = 1
                /\ ECount(i, "Data Error") = 1
                /\ \A j \in (i + 1)..Len(edf.rows) :
                     (RowParses(j) /\ MapOf(j) = MrpOf(j)) =>
                         ECount(j, "Price Error") = 1

====
